---- MODULE Spec2Model ----
(***************************************************************************)
(* A model of the 3D viewer of gpx-to-svg (components/ui/3d-viewer.tsx):   *)
(* building-height resolution from OSM tags, the height mapping of a       *)
(* scene, the foundation merge, the projection and the scene composition;  *)
(* and of the page that owns the viewer (app/page.tsx): file drop, SVG     *)
(* generation, the map-data cache and the settings controls.               *)
(*                                                                         *)
(* JavaScript numbers are modelled as exact rationals extended with        *)
(* Infinity, -Infinity and NaN, with the IEEE-754 rules for the special    *)
(* values (float64 rounding of finite values is not modelled).  Strings    *)
(* are sequences of tokens.                                                *)
(***************************************************************************)
EXTENDS Integers, Sequences, FiniteSets, TLC

VARIABLES
    hTags,        \* getBuildingHeight: the tag mapping handed to it
    hResult,      \* getBuildingHeight: its return value, NotRun before the call
    mGeoms,       \* foundation merge: the list foundationGeometries
    mResult,      \* foundation merge: the geometry returned, NotRun before the call
    mounted,      \* Viewer3D: whether the component is mounted
    props,        \* Scene3D: the props of the last render
    memo,         \* Scene3D: the useMemo cell of heightMapping (deps and value)
    scene,        \* Scene3D: what the last render produced
    pIn,          \* projection: the bounds and model dimensions handed to a component
    pOut,         \* projection: the component run and the points it projected
    tIn,          \* track: the track points and extrusion height handed over
    tOut,         \* track: who built the track mesh, and the mesh
    page,         \* Home: the state of the page component
    inflight,     \* Home: the calls of SVGGenerator.generateSVG being awaited
    timers,       \* Home: the pending timeouts and the cleanups of the two effects
    lastStarted   \* Home: the call of generateSVG started most recently, and by whom

vars == <<hTags, hResult, mGeoms, mResult, mounted, props, memo, scene, pIn, pOut,
          tIn, tOut, page, inflight, timers, lastStarted>>

-----------------------------------------------------------------------------
(* JavaScript numbers *)

RECURSIVE GCD(_, _)
GCD(a, b) == IF b = 0 THEN a ELSE GCD(b, a % b)

Abs(i) == IF i < 0 THEN -i ELSE i

\* The finite number n/d in lowest terms, d > 0.
Fin(n, d) ==
    LET s == IF d < 0 THEN -1 ELSE 1
        g == GCD(Abs(n), Abs(d))
    IN  [k |-> "fin", n |-> (s * n) \div g, d |-> (s * d) \div g]

Num(i)  == [k |-> "fin", n |-> i, d |-> 1]
PosInf  == [k |-> "inf", n |-> 1, d |-> 0]
NegInf  == [k |-> "inf", n |-> -1, d |-> 0]
NaN     == [k |-> "nan", n |-> 0, d |-> 0]

isNaN(a)    == a.k = "nan"
IsFinite(a) == a.k = "fin"
Sign(a)     == IF a.n > 0 THEN 1 ELSE IF a.n < 0 THEN -1 ELSE 0

Neg(a) == [a EXCEPT !.n = -a.n]

Add(a, b) ==
    CASE isNaN(a) \/ isNaN(b)           -> NaN
      [] a.k = "inf" /\ b.k = "inf"     -> IF a.n = b.n THEN a ELSE NaN
      [] a.k = "inf"                    -> a
      [] b.k = "inf"                    -> b
      [] OTHER                          -> Fin(a.n * b.d + b.n * a.d, a.d * b.d)

Sub(a, b) == Add(a, Neg(b))

Mul(a, b) ==
    CASE isNaN(a) \/ isNaN(b)           -> NaN
      [] a.k = "inf" \/ b.k = "inf"     ->
            IF Sign(a) * Sign(b) = 0 THEN NaN
            ELSE IF Sign(a) * Sign(b) > 0 THEN PosInf ELSE NegInf
      [] OTHER                          -> Fin(a.n * b.n, a.d * b.d)

\* Division; a zero divisor is +0 (every divisor of the model is a difference).
Div(a, b) ==
    CASE isNaN(a) \/ isNaN(b)           -> NaN
      [] a.k = "inf" /\ b.k = "inf"     -> NaN
      [] b.k = "inf"                    -> Num(0)
      [] a.k = "inf"                    -> IF Sign(a) * Sign(b) >= 0 THEN a ELSE Neg(a)
      [] b.n = 0                        ->
            IF a.n = 0 THEN NaN ELSE IF a.n > 0 THEN PosInf ELSE NegInf
      [] OTHER                          -> Fin(a.n * b.d, a.d * b.n)

\* a < b, a <= b, a === b: every comparison with NaN is false.
Lt(a, b) ==
    /\ ~isNaN(a) /\ ~isNaN(b)
    /\ CASE a.k = "inf" /\ b.k = "inf"  -> a.n < b.n
         [] a.k = "inf"                 -> a.n < 0
         [] b.k = "inf"                 -> b.n > 0
         [] OTHER                       -> a.n * b.d < b.n * a.d

StrictEq(a, b) == ~isNaN(a) /\ ~isNaN(b) /\ a = b

Le(a, b) == Lt(a, b) \/ StrictEq(a, b)

\* The largest r in lo..hi with r * r <= n.
RECURSIVE SqrtSearch(_, _, _)
SqrtSearch(n, lo, hi) ==
    IF lo >= hi THEN lo
    ELSE LET mid == (lo + hi + 1) \div 2
         IN  IF mid * mid <= n THEN SqrtSearch(n, mid, hi) ELSE SqrtSearch(n, lo, mid - 1)

ISqrt(n) == SqrtSearch(n, 0, IF n > 46340 THEN 46340 ELSE n)

IsSquare(n) == n >= 0 /\ ISqrt(n) * ISqrt(n) = n

\* Math.sqrt(a).  The root of a finite number is exact: the model has the
\* root of n/d only when n and d are squares, and no value otherwise.
Sqrt(a) ==
    CASE isNaN(a)                       -> NaN
      [] a.k = "inf"                    -> IF a.n > 0 THEN PosInf ELSE NaN
      [] a.n < 0                        -> NaN
      [] IsSquare(a.n) /\ IsSquare(a.d) -> Fin(ISqrt(a.n), ISqrt(a.d))

\* Math.min(...s) and Math.max(...s) of a sequence of numbers.
RECURSIVE MathMin(_)
MathMin(s) ==
    IF s = <<>> THEN PosInf
    ELSE LET r == MathMin(Tail(s))
         IN  IF isNaN(Head(s)) \/ isNaN(r) THEN NaN
             ELSE IF Lt(Head(s), r) THEN Head(s) ELSE r

RECURSIVE MathMax(_)
MathMax(s) ==
    IF s = <<>> THEN NegInf
    ELSE LET r == MathMax(Tail(s))
         IN  IF isNaN(Head(s)) \/ isNaN(r) THEN NaN
             ELSE IF Lt(r, Head(s)) THEN Head(s) ELSE r

-----------------------------------------------------------------------------
(* Strings, parseFloat and parseInt *)

\* A string is a sequence of tokens.  A token is one character, except that the
\* word Infinity and each building-type word is a single token.  "m" stands
\* for a character that is no part of a numeric literal (as in "15m").
MaxTagLen == 2

Digits == {"0", "1", "2", "3", "4", "5", "6", "7", "8", "9"}

DigitVal(c) ==
    CASE c = "0" -> 0 [] c = "1" -> 1 [] c = "2" -> 2 [] c = "3" -> 3 [] c = "4" -> 4
      [] c = "5" -> 5 [] c = "6" -> 6 [] c = "7" -> 7 [] c = "8" -> 8 [] c = "9" -> 9

\* The tokens the tag values of the height-resolution runs are made of.
TagChars == {"0", "1", "5", "-", ".", "m", "Infinity"}

\* The value of an absent key of a tag mapping.
undefined == <<"undefined">>

\* JavaScript truthiness of a tag value: defined and not the empty string.
Truthy(v) == v # undefined /\ v # <<>>

RECURSIVE DigitPrefix(_)
DigitPrefix(s) ==
    IF s # <<>> /\ Head(s) \in Digits
    THEN <<Head(s)>> \o DigitPrefix(Tail(s))
    ELSE <<>>

RECURSIVE DecimalValue(_)
DecimalValue(ds) ==
    IF ds = <<>> THEN 0
    ELSE 10 * DecimalValue(SubSeq(ds, 1, Len(ds) - 1)) + DigitVal(ds[Len(ds)])

RECURSIVE Pow10(_)
Pow10(n) == IF n = 0 THEN 1 ELSE 10 * Pow10(n - 1)

Drop(s, n) == SubSeq(s, n + 1, Len(s))

\* parseFloat(string): the longest prefix that is a decimal literal (sign,
\* Infinity, digits, fraction); NaN when there is none.
parseFloat(str) ==
    LET neg   == str # <<>> /\ Head(str) = "-"
        body  == IF neg THEN Tail(str) ELSE str
        int   == DigitPrefix(body)
        rest  == Drop(body, Len(int))
        frac  == IF rest # <<>> /\ Head(rest) = "." THEN DigitPrefix(Tail(rest)) ELSE <<>>
        mag   == Fin(DecimalValue(int \o frac), Pow10(Len(frac)))
    IN  IF body # <<>> /\ Head(body) = "Infinity"
        THEN (IF neg THEN NegInf ELSE PosInf)
        ELSE IF int = <<>> /\ frac = <<>> THEN NaN
        ELSE IF neg THEN Neg(mag) ELSE mag

\* parseInt(string) with no radix: sign and decimal digits; NaN when no digit
\* follows the sign.
parseInt(str) ==
    LET neg   == str # <<>> /\ Head(str) = "-"
        body  == IF neg THEN Tail(str) ELSE str
        int   == DigitPrefix(body)
    IN  IF int = <<>> THEN NaN
        ELSE IF neg THEN Num(-DecimalValue(int)) ELSE Num(DecimalValue(int))

-----------------------------------------------------------------------------
(* getBuildingHeight *)

\* The table without its office entry.
BuildingTypeHeightNoOffice(buildingType) ==
    CASE buildingType \in {<<"house">>, <<"residential">>} -> Num(6)
      [] buildingType = <<"apartments">>                   -> Num(15)
      [] buildingType \in {<<"commercial">>, <<"retail">>} -> Num(4)
      [] buildingType = <<"industrial">>                   -> Num(8)
      [] buildingType = <<"hospital">>                     -> Num(12)
      [] buildingType = <<"school">>                       -> Num(4)
      [] buildingType = <<"church">>                       -> Num(15)
      [] OTHER                                             -> Num(6)

\* The building-type table of the switch statement.
BuildingTypeHeight(buildingType) ==
    CASE buildingType \in {<<"house">>, <<"residential">>} -> Num(6)
      [] buildingType = <<"apartments">>                   -> Num(15)
      [] buildingType \in {<<"commercial">>, <<"retail">>} -> Num(4)
      [] buildingType = <<"industrial">>                   -> Num(8)
      [] buildingType = <<"office">>                       -> Num(20)
      [] buildingType = <<"hospital">>                     -> Num(12)
      [] buildingType = <<"school">>                       -> Num(4)
      [] buildingType = <<"church">>                       -> Num(15)
      [] OTHER                                             -> Num(6)

\* The chain with the levels branch tried before the height branch.
getBuildingHeightLevelsFirst(tags) ==
    LET height       == Num(6)
        parsedHeight == parseFloat(tags.height)
        levels       == parseInt(tags.levels)
    IN  IF Truthy(tags.levels)
        THEN (IF ~isNaN(levels) THEN Mul(levels, Num(3)) ELSE height)
        ELSE IF Truthy(tags.height)
        THEN (IF ~isNaN(parsedHeight) THEN parsedHeight ELSE height)
        ELSE BuildingTypeHeight(tags.building)

\* The chain with the building-type table tried before the levels branch.
getBuildingHeightTypeFirst(tags) ==
    LET height       == Num(6)
        parsedHeight == parseFloat(tags.height)
        levels       == parseInt(tags.levels)
    IN  IF Truthy(tags.height)
        THEN (IF ~isNaN(parsedHeight) THEN parsedHeight ELSE height)
        ELSE IF tags.building # undefined
        THEN BuildingTypeHeight(tags.building)
        ELSE IF Truthy(tags.levels)
        THEN (IF ~isNaN(levels) THEN Mul(levels, Num(3)) ELSE height)
        ELSE height

\* A tag mapping is [height, levels, building]; levels is the key
\* building:levels.  The if / else-if / else chain of the source: a branch
\* whose value does not parse leaves the chain and returns the default.
getBuildingHeight(tags) ==
    LET height       == Num(6)
        parsedHeight == parseFloat(tags.height)
        levels       == parseInt(tags.levels)
    IN  IF Truthy(tags.height)
        THEN (IF ~isNaN(parsedHeight) THEN parsedHeight ELSE height)
        ELSE IF Truthy(tags.levels)
        THEN (IF ~isNaN(levels) THEN Mul(levels, Num(3)) ELSE height)
        ELSE BuildingTypeHeight(tags.building)

-----------------------------------------------------------------------------
(* Runs of getBuildingHeight on a tag mapping *)

NotRun == [k |-> "notrun", n |-> 0, d |-> 0]

TagStrings == UNION {[1..n -> TagChars] : n \in 0..MaxTagLen}

TagValues == {undefined} \cup TagStrings

BuildingTypes ==
    {undefined, <<"house">>, <<"residential">>, <<"apartments">>, <<"commercial">>,
     <<"retail">>, <<"industrial">>, <<"office">>, <<"hospital">>, <<"school">>,
     <<"church">>, <<"shed">>}

TagMappings == [height : TagValues, levels : TagValues, building : BuildingTypes]

NoTags == [height |-> undefined, levels |-> undefined, building |-> undefined]

HeightInit ==
    /\ hTags \in TagMappings
    /\ hResult = NotRun

ResolveHeight ==
    /\ hResult = NotRun
    /\ hResult' = getBuildingHeight(hTags)
    /\ UNCHANGED hTags

\* The resolution order the height rules state: the first rule that applies
\* wins, and a value that does not parse is skipped.
IsNumericHeight(tags) == tags.height # undefined /\ ~isNaN(parseFloat(tags.height))
IsIntegerLevels(tags) == tags.levels # undefined /\ ~isNaN(parseInt(tags.levels))

NextRuleAfterLevels(tags) == BuildingTypeHeight(tags.building)

NextRuleAfterHeight(tags) ==
    IF IsIntegerLevels(tags)
    THEN Mul(parseInt(tags.levels), Num(3))
    ELSE NextRuleAfterLevels(tags)

\* C1: a height tag that is present but not numeric falls through to the next
\* applicable rule (levels x 3, else the building-type table, else 6), and a
\* levels tag that is present but not numeric falls through to the
\* building-type table.
C1_UnparseableFallsThrough ==
    hResult # NotRun =>
        /\ (hTags.height # undefined /\ ~IsNumericHeight(hTags))
               => hResult = NextRuleAfterHeight(hTags)
        /\ (hTags.height = undefined /\ hTags.levels # undefined /\ ~IsIntegerLevels(hTags))
               => hResult = NextRuleAfterLevels(hTags)

\* C2: getBuildingHeight returns a finite, strictly positive height for every
\* tag mapping.
C2_FinitePositive ==
    hResult # NotRun => IsFinite(hResult) /\ Lt(Num(0), hResult)

\* C17: whenever the height tag parses to a number, getBuildingHeight returns
\* that number, whatever the levels and building tags are.
C17_HeightTagWins ==
    (hResult # NotRun /\ IsNumericHeight(hTags))
        => hResult = parseFloat(hTags.height)

\* Height "15" next to a numeric levels tag and a building type: 15.
C17_Witness ==
    /\ hTags.height = <<"1", "5">>
    /\ hTags.levels = <<"5">>
    /\ hTags.building = <<"office">>
    /\ hResult = Num(15)

\* A levels value that is an integer literal: an optional sign and digits only.
IsIntegerLiteral(s) ==
    LET body == IF s # <<>> /\ Head(s) = "-" THEN Tail(s) ELSE s
    IN  s # undefined /\ body # <<>> /\ \A i \in 1..Len(body) : body[i] \in Digits

IntegerLiteralValue(s) ==
    IF Head(s) = "-" THEN -DecimalValue(Tail(s)) ELSE DecimalValue(s)

\* C18: with no height tag and a levels tag that is the integer L,
\* getBuildingHeight returns 3 * L, whatever the building tag is.
C18_LevelsTimesThree ==
    (hResult # NotRun /\ hTags.height = undefined /\ IsIntegerLiteral(hTags.levels))
        => hResult = Num(3 * IntegerLiteralValue(hTags.levels))

\* Levels "5" on an office with no height tag: 15, not the 20 of the table.
C18_Witness ==
    /\ hTags.height = undefined
    /\ hTags.levels = <<"5">>
    /\ hTags.building = <<"office">>
    /\ hResult = Num(15)

\* The fixed table of building types the height rules state.
TableHeight(buildingType) ==
    IF buildingType \in {<<"house">>, <<"residential">>} THEN 6
    ELSE IF buildingType = <<"apartments">> THEN 15
    ELSE IF buildingType \in {<<"commercial">>, <<"retail">>} THEN 4
    ELSE IF buildingType = <<"industrial">> THEN 8
    ELSE IF buildingType = <<"office">> THEN 20
    ELSE IF buildingType = <<"hospital">> THEN 12
    ELSE IF buildingType = <<"school">> THEN 4
    ELSE IF buildingType = <<"church">> THEN 15
    ELSE 6

\* C19: with neither a height nor a levels tag, getBuildingHeight returns the
\* table value of the building tag, and 6 for any other or absent type.
C19_TypeTable ==
    (hResult # NotRun /\ hTags.height = undefined /\ hTags.levels = undefined)
        => hResult = Num(TableHeight(hTags.building))

\* An office with no other tag: 20.
C19_Witness ==
    /\ hTags.height = undefined
    /\ hTags.levels = undefined
    /\ hTags.building = <<"office">>
    /\ hResult = Num(20)

-----------------------------------------------------------------------------
(* Geometries and the foundation merge *)

\* A BufferGeometry: the vertices of its position attribute, and its index
\* (indexed = FALSE is a geometry whose index is null).
EmptyGeometry == [position |-> <<>>, indexed |-> FALSE, index |-> <<>>]

ShiftIndexNoOffset(idx, vertexOffset) == idx

\* indices.push(idx.array[i] + vertexOffset) for every i.
ShiftIndex(idx, vertexOffset) == [i \in 1..Len(idx) |-> idx[i] + vertexOffset]

\* The forEach loop over foundationGeometries: acc holds positions, indices
\* and vertexOffset.
RECURSIVE MergeLoop(_, _)
MergeLoop(geoms, acc) ==
    IF geoms = <<>> THEN acc
    ELSE LET geometry == Head(geoms)
             pos      == geometry.position
             idx      == geometry.index
         IN  MergeLoop(Tail(geoms),
                [positions    |-> acc.positions \o pos,
                 indices      |-> IF geometry.indexed
                                  THEN acc.indices \o ShiftIndex(idx, acc.vertexOffset)
                                  ELSE acc.indices,
                 vertexOffset |-> acc.vertexOffset + Len(pos)])

\* mergedGeometry: setAttribute('position', positions) and setIndex(indices).
MergedGeometry(geoms) ==
    LET acc == MergeLoop(geoms, [positions |-> <<>>, indices |-> <<>>, vertexOffset |-> 0])
    IN  [position |-> acc.positions, indexed |-> TRUE, index |-> acc.indices]

MergeAlways(foundationGeometries) == MergedGeometry(foundationGeometries)

\* What Foundation3D returns for the extruded slabs: nothing to merge gives an
\* empty BufferGeometry, one slab is returned as it is, more are merged.
MergeFoundationGeometries(foundationGeometries) ==
    IF Len(foundationGeometries) = 0 THEN EmptyGeometry
    ELSE IF Len(foundationGeometries) = 1 THEN foundationGeometries[1]
    ELSE MergedGeometry(foundationGeometries)

-----------------------------------------------------------------------------
(* Runs of the foundation merge on a list of geometries *)

MaxMeshes == 3

GeometryPool ==
    { [position |-> <<"a0", "a1", "a2">>, indexed |-> FALSE, index |-> <<>>],
      [position |-> <<"b0", "b1", "b2">>, indexed |-> TRUE,  index |-> <<0, 1, 2>>],
      [position |-> <<"c0", "c1", "c2", "c3">>, indexed |-> TRUE,
       index |-> <<0, 1, 2, 0, 2, 3>>],
      [position |-> <<"d0", "d1", "d2", "d3">>, indexed |-> TRUE,
       index |-> <<2, 1, 0, 3, 2, 0>>],
      [position |-> <<"e0", "e1", "e2", "e3", "e4", "e5">>, indexed |-> FALSE,
       index |-> <<>>] }

GeometryLists == UNION {[1..n -> GeometryPool] : n \in 0..MaxMeshes}

NotMerged == [done |-> FALSE, geometry |-> EmptyGeometry]

MergeInit ==
    /\ mGeoms \in GeometryLists
    /\ mResult = NotMerged

MergeFoundation ==
    /\ ~mResult.done
    /\ mResult' = [done |-> TRUE, geometry |-> MergeFoundationGeometries(mGeoms)]
    /\ UNCHANGED mGeoms

\* The number of vertices, and of indices, of the geometries before input k.
RECURSIVE VerticesBefore(_, _)
VerticesBefore(geoms, k) ==
    IF k <= 1 THEN 0 ELSE VerticesBefore(geoms, k - 1) + Len(geoms[k - 1].position)

RECURSIVE IndicesBefore(_, _)
IndicesBefore(geoms, k) ==
    IF k <= 1 THEN 0 ELSE IndicesBefore(geoms, k - 1) + Len(geoms[k - 1].index)

\* C5: merging two or more meshes concatenates them: the vertices of input k
\* start at the sum of the vertex counts before k, each of its indices appears
\* shifted by that sum and in input order, the merged vertex count is the sum
\* of the counts, and every merged index is below it.
C5_MergeConcatenates ==
    (mResult.done /\ Len(mGeoms) >= 2) =>
        LET merged == mResult.geometry
            n      == Len(mGeoms)
            total  == VerticesBefore(mGeoms, n + 1)
        IN  /\ Len(merged.position) = total
            /\ Len(merged.index) = IndicesBefore(mGeoms, n + 1)
            /\ \A k \in 1..n :
                 /\ \A i \in 1..Len(mGeoms[k].position) :
                      merged.position[VerticesBefore(mGeoms, k) + i] = mGeoms[k].position[i]
                 /\ \A j \in 1..Len(mGeoms[k].index) :
                      merged.index[IndicesBefore(mGeoms, k) + j]
                          = mGeoms[k].index[j] + VerticesBefore(mGeoms, k)
            /\ \A j \in 1..Len(merged.index) : merged.index[j] <= total - 1

\* Reached: three meshes merged, the second and the third indexed.
C5_Witness ==
    /\ mResult.done
    /\ Len(mGeoms) = 3
    /\ mGeoms[2].indexed /\ mGeoms[3].indexed
    /\ Len(mResult.geometry.position) = 11
    /\ mResult.geometry.index[Len(mResult.geometry.index)] = 7

\* C6: merging no mesh gives an empty mesh (no vertices, no indices), and
\* merging exactly one mesh returns that mesh, vertex and index lists unchanged.
C6_EmptyAndSingle ==
    mResult.done =>
        /\ Len(mGeoms) = 0 =>
              /\ mResult.geometry.position = <<>>
              /\ mResult.geometry.index = <<>>
        /\ Len(mGeoms) = 1 => mResult.geometry = mGeoms[1]

\* Reached: a single mesh without an index was handed in and came back.
C6_Witness ==
    /\ mResult.done
    /\ Len(mGeoms) = 1
    /\ ~mGeoms[1].indexed
    /\ mResult.geometry = mGeoms[1]

-----------------------------------------------------------------------------
(* Projection, extrusion and the components of a scene *)

Half == Fin(1, 2)

\* x and z of a coordinate: the projection each component repeats.
ProjectX(lon, bounds, scaleX) ==
    Mul(Sub(Div(Sub(lon, bounds.west), Sub(bounds.east, bounds.west)), Half), scaleX)

\* z without the north-south flip.
ProjectZNoFlip(lat, bounds, scaleZ) ==
    Mul(Sub(Div(Sub(lat, bounds.south), Sub(bounds.north, bounds.south)), Half), scaleZ)

ProjectZ(lat, bounds, scaleZ) ==
    Neg(Mul(Sub(Div(Sub(lat, bounds.south), Sub(bounds.north, bounds.south)), Half), scaleZ))

ScaleX(modelDimensions) == IF modelDimensions.def THEN modelDimensions.width ELSE Num(1000)
ScaleZ(modelDimensions) == IF modelDimensions.def THEN modelDimensions.depth ELSE Num(1000)

\* The THREE.Vector2 list of a footprint or a track.
ProjectPoints(coords, bounds, modelDimensions) ==
    [i \in 1..Len(coords) |->
        [x |-> ProjectX(coords[i].lon, bounds, ScaleX(modelDimensions)),
         y |-> ProjectZ(coords[i].lat, bounds, ScaleZ(modelDimensions))]]

\* new THREE.ExtrudeGeometry(shape, {depth, bevelEnabled: false}): a geometry
\* without index.  Of the prism three.js builds, the model keeps the corner
\* vertices (every outline point at 0 and at depth), not the triangulation.
ExtrudeGeometry(shape, depth) ==
    [position |-> [i \in 1..(2 * Len(shape)) |->
                      IF i <= Len(shape)
                      THEN <<shape[i].x, shape[i].y, Num(0)>>
                      ELSE <<shape[i - Len(shape)].x, shape[i - Len(shape)].y, depth>>],
     indexed  |-> FALSE,
     index    |-> <<>>]

\* mappedHeight of a building.
MapHeight(originalHeight, heightMapping) ==
    LET normalizedHeight == Div(Sub(originalHeight, heightMapping.min),
                                Sub(heightMapping.max, heightMapping.min))
    IN  Add(heightMapping.minMM,
            Mul(normalizedHeight, Sub(heightMapping.maxMM, heightMapping.minMM)))

\* Building3D: the mesh of one building.  No check of the footprint's length.
Building3D(building, bounds, modelDimensions, originalHeight, heightMapping) ==
    LET shape  == ProjectPoints(building.geometry, bounds, modelDimensions)
        height == MapHeight(originalHeight, heightMapping)
    IN  [shape          |-> shape,
         originalHeight |-> originalHeight,
         heightMapping  |-> heightMapping,
         height         |-> height,
         geometry       |-> ExtrudeGeometry(shape, height)]

foundationHeight == 2

\* Foundation3D with a slab for every footprint, however few points it has.
Foundation3DUnfiltered(buildings, bounds, modelDimensions) ==
    IF Len(buildings) = 0 THEN EmptyGeometry
    ELSE MergeFoundationGeometries(
             [i \in 1..Len(buildings) |->
                 ExtrudeGeometry(ProjectPoints(buildings[i].geometry, bounds, modelDimensions),
                                 Num(foundationHeight))])

\* Foundation3D: one slab per footprint of more than 2 points, merged.
Foundation3D(buildings, bounds, modelDimensions) ==
    IF Len(buildings) = 0 THEN EmptyGeometry
    ELSE LET usable    == SelectSeq(buildings, LAMBDA b : Len(b.geometry) > 2)
             allShapes == [i \in 1..Len(usable) |->
                              ProjectPoints(usable[i].geometry, bounds, modelDimensions)]
             foundationGeometries ==
                 [i \in 1..Len(allShapes) |->
                     ExtrudeGeometry(allShapes[i], Num(foundationHeight))]
         IN  MergeFoundationGeometries(foundationGeometries)

\* The track mesh of new THREE.BufferGeometry(): no vertex, no triangle.
EmptyTrack == [pathPoints |-> <<>>, pathWidth |-> Num(0), extrusionHeight |-> Num(0)]

\* GPXTrack3D without its early return.
GPXTrack3DNoGuard(points, bounds, strokeWidth, modelDimensions, pathExtrusionHeight) ==
    [pathPoints      |-> ProjectPoints(points, bounds, modelDimensions),
     pathWidth       |-> Mul(strokeWidth, Half),
     extrusionHeight |-> IF /\ pathExtrusionHeight.def
                            /\ pathExtrusionHeight.value # Num(0)
                            /\ ~isNaN(pathExtrusionHeight.value)
                         THEN pathExtrusionHeight.value
                         ELSE Num(2)]

\* GPXTrack3D: the projected path, the half width and the extrusion depth of
\* the track ribbon.
GPXTrack3D(points, bounds, strokeWidth, modelDimensions, pathExtrusionHeight) ==
    IF Len(points) < 2
    THEN EmptyTrack
    ELSE [pathPoints      |-> ProjectPoints(points, bounds, modelDimensions),
          pathWidth       |-> Mul(strokeWidth, Half),
          extrusionHeight |-> IF /\ pathExtrusionHeight.def
                                 /\ pathExtrusionHeight.value # Num(0)
                                 /\ ~isNaN(pathExtrusionHeight.value)
                              THEN pathExtrusionHeight.value
                              ELSE Num(2)]

\* THREE.Vector2: subVectors, addVectors, multiplyScalar, length, normalize.
SubVectors(a, b) == [x |-> Sub(a.x, b.x), y |-> Sub(a.y, b.y)]

AddVectors(a, b) == [x |-> Add(a.x, b.x), y |-> Add(a.y, b.y)]

MultiplyScalar(v, scalar) == [x |-> Mul(v.x, scalar), y |-> Mul(v.y, scalar)]

Length(v) == Sqrt(Add(Mul(v.x, v.x), Mul(v.y, v.y)))

\* normalize(): divideScalar(length() || 1), which multiplies by 1 / scalar.
Normalize(v) ==
    LET len == Length(v)
    IN  MultiplyScalar(v, Div(Num(1), IF len = Num(0) \/ isNaN(len) THEN Num(1) ELSE len))

\* The direction at path point i taken from the segment that leaves it only.
DirectionOutgoing(pathPoints, i) ==
    IF i = Len(pathPoints)
    THEN Normalize(SubVectors(pathPoints[i], pathPoints[i - 1]))
    ELSE Normalize(SubVectors(pathPoints[i + 1], pathPoints[i]))

\* direction at path point i (from 1): along the only segment at an end,
\* the normalized sum of the two normalized segments in between.
Direction(pathPoints, i) ==
    IF i = 1
    THEN Normalize(SubVectors(pathPoints[i + 1], pathPoints[i]))
    ELSE IF i = Len(pathPoints)
    THEN Normalize(SubVectors(pathPoints[i], pathPoints[i - 1]))
    ELSE LET dirToPrev == Normalize(SubVectors(pathPoints[i], pathPoints[i - 1]))
             dirToNext == Normalize(SubVectors(pathPoints[i + 1], pathPoints[i]))
         IN  Normalize(AddVectors(dirToPrev, dirToNext))

\* perpendicular = new Vector2(-direction.y, direction.x).multiplyScalar(pathWidth)
Perpendicular(direction, pathWidth) ==
    MultiplyScalar([x |-> Neg(direction.y), y |-> direction.x], pathWidth)

\* expandedPath: the forward loop pushes current + perpendicular for every
\* path point, the backward loop current - perpendicular from the last path
\* point to the first; nothing when there are fewer than 2 path points.
ExpandedPath(pathPoints, pathWidth) ==
    LET N == Len(pathPoints)
    IN  IF N < 2 THEN <<>>
        ELSE [j \in 1..(2 * N) |->
                 IF j <= N
                 THEN AddVectors(pathPoints[j],
                                 Perpendicular(Direction(pathPoints, j), pathWidth))
                 ELSE SubVectors(pathPoints[2 * N - j + 1],
                                 Perpendicular(Direction(pathPoints, 2 * N - j + 1), pathWidth))]

\* The outline of pathShape and the extruded geometry of a track.
pathShape(track) == ExpandedPath(track.pathPoints, track.pathWidth)

trackGeometry(track) ==
    IF track = EmptyTrack THEN EmptyGeometry
    ELSE ExtrudeGeometry(pathShape(track), track.extrusionHeight)

-----------------------------------------------------------------------------
(* Scene3D *)

NoHeightMapping == [def |-> FALSE, min |-> Num(0), max |-> Num(0),
                    minMM |-> Num(0), maxMM |-> Num(0)]

\* heights = osmData.buildings.map(getBuildingHeight)
ResolvedHeights(buildings) == [i \in 1..Len(buildings) |-> getBuildingHeight(buildings[i].tags)]

\* The body of the useMemo of heightMapping; null is NoHeightMapping.
ComputeHeightMapping(osmData, buildingHeightRange) ==
    IF ~osmData.def \/ Len(osmData.buildings) = 0 \/ ~buildingHeightRange.def
    THEN NoHeightMapping
    ELSE LET heights   == ResolvedHeights(osmData.buildings)
             minHeight == MathMin(heights)
             maxHeight == MathMax(heights)
             same      == StrictEq(minHeight, maxHeight)
         IN  [def   |-> TRUE,
              min   |-> IF same THEN Sub(minHeight, Num(1)) ELSE minHeight,
              max   |-> IF same THEN Add(maxHeight, Num(1)) ELSE maxHeight,
              minMM |-> buildingHeightRange.min,
              maxMM |-> buildingHeightRange.max]

\* useMemo(..., [osmData?.buildings, buildingHeightRange]): the cell is
\* recomputed when a dependency changed.
MemoDeps(p) == <<p.osmData, p.buildingHeightRange>>

UseMemo(cell, p) ==
    IF cell.deps = MemoDeps(p) THEN cell
    ELSE [deps |-> MemoDeps(p), value |-> ComputeHeightMapping(p.osmData, p.buildingHeightRange)]

\* heightMapping || { min: 6, max: 6, minMM: 5, maxMM: 30 }
DefaultHeightMapping == [def |-> TRUE, min |-> Num(6), max |-> Num(6),
                         minMM |-> Num(5), maxMM |-> Num(30)]

NoMesh == [placed |-> FALSE, geometry |-> EmptyGeometry]

NoTrack == [placed |-> FALSE,
            track |-> [pathPoints |-> <<>>, pathWidth |-> Num(0), extrusionHeight |-> Num(0)]]

EmptyScene == [foundation |-> NoMesh, buildings |-> <<>>, track |-> NoTrack]

\* The group of a render that has bounds: foundation, buildings and track.
SceneGroup(p, heightMapping) ==
         [foundation |->
              IF p.osmData.def /\ Len(p.osmData.buildings) > 0
              THEN [placed   |-> TRUE,
                    geometry |-> Foundation3D(p.osmData.buildings, p.bounds, p.modelDimensions)]
              ELSE NoMesh,
          buildings |->
              IF p.osmData.def
              THEN [i \in 1..Len(p.osmData.buildings) |->
                       Building3D(p.osmData.buildings[i], p.bounds, p.modelDimensions,
                                  getBuildingHeight(p.osmData.buildings[i].tags),
                                  IF heightMapping.def THEN heightMapping
                                  ELSE DefaultHeightMapping)]
              ELSE <<>>,
          track |->
              IF p.gpxPoints.def /\ Len(p.gpxPoints.points) > 1
              THEN [placed |-> TRUE,
                    track  |-> GPXTrack3D(p.gpxPoints.points, p.bounds,
                                          IF p.strokeWidth.def THEN p.strokeWidth.value
                                          ELSE Num(2),
                                          p.modelDimensions, p.pathExtrusionHeight)]
              ELSE NoTrack]

\* A render that builds the group whether or not it has bounds.
Scene3DUnguarded(p, heightMapping) == SceneGroup(p, heightMapping)

\* What one render of Scene3D puts into the group, heightMapping being the
\* value of the memo cell: nothing when there are no bounds.
Scene3D(p, heightMapping) ==
    IF ~p.bounds.def THEN EmptyScene
    ELSE SceneGroup(p, heightMapping)

-----------------------------------------------------------------------------
(* Renders of Scene3D under changing props *)

MaxBuildings == 3

Coord(lat, lon) == [lat |-> lat, lon |-> lon]

Triangle == <<Coord(Num(0), Num(0)), Coord(Num(0), Num(1)), Coord(Num(1), Num(0))>>
Square   == <<Coord(Half, Half), Coord(Half, Num(1)), Coord(Num(1), Num(1)),
              Coord(Num(1), Half)>>
Segment  == <<Coord(Num(0), Num(0)), Coord(Num(1), Num(1))>>

\* The footprints a scene is built from: a 4 m shop, a 40 m tower, a footprint
\* of two points (default height 6) and a footprint tagged height=Infinity.
Shop      == [geometry |-> Triangle, tags |-> [NoTags EXCEPT !.building = <<"retail">>]]
Tower     == [geometry |-> Square,   tags |-> [NoTags EXCEPT !.height = <<"4", "0">>]]
Sliver    == [geometry |-> Segment,  tags |-> NoTags]
Unbounded == [geometry |-> Triangle, tags |-> [NoTags EXCEPT !.height = <<"Infinity">>]]

BuildingPool == {Shop, Tower, Sliver, Unbounded}

NoOsmData == [def |-> FALSE, buildings |-> <<>>]

OsmDataPool ==
    {NoOsmData} \cup
    {[def |-> TRUE, buildings |-> bs] :
        bs \in UNION {[1..n -> BuildingPool] : n \in 0..MaxBuildings}}

NoBounds   == [def |-> FALSE, north |-> Num(0), south |-> Num(0),
               east |-> Num(0), west |-> Num(0)]
UnitBounds == [def |-> TRUE, north |-> Num(1), south |-> Num(0),
               east |-> Num(1), west |-> Num(0)]

\* A box of no area: north = south.
FlatBounds == [def |-> TRUE, north |-> Num(0), south |-> Num(0),
               east |-> Num(1), west |-> Num(0)]

BoundsPool == {NoBounds, UnitBounds, FlatBounds}

NoRange == [def |-> FALSE, min |-> Num(0), max |-> Num(0)]

HeightRange(lo, hi) == [def |-> TRUE, min |-> Num(lo), max |-> Num(hi)]

HeightRangePool == {NoRange, HeightRange(5, 30), HeightRange(10, 10), HeightRange(30, 5)}

NoPoints == [def |-> FALSE, points |-> <<>>]

GpxPointsPool ==
    {NoPoints,
     [def |-> TRUE, points |-> <<Coord(Half, Half)>>],
     [def |-> TRUE, points |-> <<Coord(Half, Half), Coord(Num(1), Half)>>]}

\* The props of a Viewer3D mounted with no optional prop given.
InitialProps ==
    [osmData             |-> NoOsmData,
     bounds              |-> NoBounds,
     gpxPoints           |-> NoPoints,
     strokeWidth         |-> [def |-> FALSE, value |-> Num(0)],
     modelDimensions     |-> [def |-> FALSE, width |-> Num(0), depth |-> Num(0)],
     buildingHeightRange |-> NoRange,
     pathExtrusionHeight |-> [def |-> FALSE, value |-> Num(0)]]

\* The memo cell after the first render: useMemo runs its body.
FirstMemo(p) ==
    [deps |-> MemoDeps(p), value |-> ComputeHeightMapping(p.osmData, p.buildingHeightRange)]

NoMemo == [deps |-> MemoDeps(InitialProps), value |-> NoHeightMapping]

SceneIdle == mounted = FALSE /\ props = InitialProps /\ memo = NoMemo /\ scene = EmptyScene

HeightIdle == hTags = NoTags /\ hResult = NotRun

MergeIdle == mGeoms = <<>> /\ mResult = NotMerged

\* The projection of the marks of a bounding box by one component.
MaxCoord == 2

NoDimensions == [def |-> FALSE, width |-> Num(0), depth |-> Num(0)]

Dimensions(w, d) == [def |-> TRUE, width |-> Num(w), depth |-> Num(d)]

DimensionsPool == {NoDimensions, Dimensions(100, 100), Dimensions(200, 300)}

\* Every bounding box with north > south and east > west on the grid.
ValidBounds ==
    {[def |-> TRUE, north |-> Num(n), south |-> Num(s), east |-> Num(e), west |-> Num(w)] :
        <<n, s, e, w>> \in {t \in ((-1)..MaxCoord) \X ((-1)..MaxCoord)
                                 \X ((-1)..MaxCoord) \X ((-1)..MaxCoord) :
                               t[1] > t[2] /\ t[3] > t[4]}}

\* The centre of the box, its northwest and southeast corners, and the point
\* a quarter of the way from the southwest corner.
Marks(b) ==
    <<Coord(Div(Add(b.north, b.south), Num(2)), Div(Add(b.east, b.west), Num(2))),
      Coord(b.north, b.west),
      Coord(b.south, b.east),
      Coord(Add(b.south, Div(Sub(b.north, b.south), Num(4))),
            Add(b.west, Div(Sub(b.east, b.west), Num(4))))>>

NotProjected == [component |-> "none", points |-> <<>>]

ProjIdle ==
    /\ pIn = [bounds |-> UnitBounds, modelDimensions |-> NoDimensions]
    /\ pOut = NotProjected

ProjInit ==
    /\ pIn \in [bounds : ValidBounds, modelDimensions : DimensionsPool]
    /\ pOut = NotProjected

\* Building3D projects the marks as a footprint.
ProjectBuilding ==
    /\ pOut = NotProjected
    /\ pOut' = [component |-> "building",
                points |-> Building3D([geometry |-> Marks(pIn.bounds), tags |-> NoTags],
                                      pIn.bounds, pIn.modelDimensions, Num(6),
                                      DefaultHeightMapping).shape]
    /\ UNCHANGED pIn

\* Foundation3D projects the marks as the only footprint: the corners of the
\* bottom face of the slab are the projected points.
ProjectFoundation ==
    /\ pOut = NotProjected
    /\ LET slab == Foundation3D(<<[geometry |-> Marks(pIn.bounds), tags |-> NoTags]>>,
                                pIn.bounds, pIn.modelDimensions)
       IN  pOut' = [component |-> "foundation",
                    points |-> [i \in 1..Len(Marks(pIn.bounds)) |->
                                   [x |-> slab.position[i][1], y |-> slab.position[i][2]]]]
    /\ UNCHANGED pIn

\* GPXTrack3D projects the marks as a track.
ProjectTrack ==
    /\ pOut = NotProjected
    /\ pOut' = [component |-> "track",
                points |-> GPXTrack3D(Marks(pIn.bounds), pIn.bounds, Num(2),
                                      pIn.modelDimensions,
                                      [def |-> FALSE, value |-> Num(0)]).pathPoints]
    /\ UNCHANGED pIn

\* The track mesh of a track of any length, built by GPXTrack3D itself and by
\* a render of Scene3D.
MaxTrackLen == 3

\* Three points that the unit bounds project to (0, 0), (500, 0) and
\* (360, 480): their distances are 500, 500 and 600.
TrackPointPool == {Coord(Half, Half), Coord(Half, Num(1)), Coord(Fin(1, 50), Fin(43, 50))}

\* The squared length of a vector is the square of a rational.
HasRationalLength(v) ==
    LET sq == Add(Mul(v.x, v.x), Mul(v.y, v.y))
    IN  IsFinite(sq) /\ IsSquare(sq.n) /\ IsSquare(sq.d)

\* The track has a ribbon of rational coordinates: every segment and every
\* sum of two consecutive unit directions has a rational length.
HasRationalRibbon(t) ==
    LET pp == ProjectPoints(t, UnitBounds, NoDimensions)
    IN  /\ \A i \in 1..(Len(pp) - 1) : HasRationalLength(SubVectors(pp[i + 1], pp[i]))
        /\ \A i \in 2..(Len(pp) - 1) :
               HasRationalLength(AddVectors(Normalize(SubVectors(pp[i], pp[i - 1])),
                                            Normalize(SubVectors(pp[i + 1], pp[i]))))

Tracks ==
    {t \in UNION {[1..n -> TrackPointPool] : n \in 0..MaxTrackLen} : HasRationalRibbon(t)}

ExtrusionPool ==
    {[def |-> FALSE, value |-> Num(0)], [def |-> TRUE, value |-> Num(0)],
     [def |-> TRUE, value |-> Num(5)]}

NotBuilt == [by |-> "none", placed |-> FALSE, track |-> EmptyTrack, shape |-> <<>>]

TrackIdle ==
    /\ tIn = [gpxPoints |-> NoPoints, pathExtrusionHeight |-> [def |-> FALSE, value |-> Num(0)]]
    /\ tOut = NotBuilt

TrackInit ==
    /\ tIn \in [gpxPoints : {NoPoints} \cup {[def |-> TRUE, points |-> t] : t \in Tracks},
                pathExtrusionHeight : ExtrusionPool]
    /\ tOut = NotBuilt

\* GPXTrack3D is rendered with the track as its points.
BuildTrack ==
    /\ tOut = NotBuilt
    /\ tIn.gpxPoints.def
    /\ tOut' = [by     |-> "GPXTrack3D",
                placed |-> TRUE,
                track  |-> GPXTrack3D(tIn.gpxPoints.points, UnitBounds, Num(2),
                                      NoDimensions, tIn.pathExtrusionHeight),
                shape  |-> pathShape(GPXTrack3D(tIn.gpxPoints.points, UnitBounds, Num(2),
                                                NoDimensions, tIn.pathExtrusionHeight))]
    /\ UNCHANGED tIn

\* Scene3D is rendered with the track as gpxPoints, within the unit bounds.
PlaceTrack ==
    /\ tOut = NotBuilt
    /\ LET p  == [InitialProps EXCEPT !.bounds = UnitBounds,
                                      !.gpxPoints = tIn.gpxPoints,
                                      !.pathExtrusionHeight = tIn.pathExtrusionHeight]
           sc == Scene3D(p, FirstMemo(p).value)
       IN  tOut' = [by |-> "Scene3D", placed |-> sc.track.placed, track |-> sc.track.track,
                    shape |-> pathShape(sc.track.track)]
    /\ UNCHANGED tIn

heightVars == <<hTags, hResult>>
projVars   == <<pIn, pOut>>
trackVars  == <<tIn, tOut>>
pageVars   == <<page, inflight, timers, lastStarted>>
mergeVars  == <<mGeoms, mResult>>
sceneVars  == <<mounted, props, memo, scene>>

\* Viewer3D is mounted with the map data d: the first render of Scene3D.
Mount ==
    /\ ~mounted
    /\ \E d \in OsmDataPool :
         LET p == [InitialProps EXCEPT !.osmData = d]
         IN  /\ props' = p
             /\ memo' = FirstMemo(p)
             /\ scene' = Scene3D(p, FirstMemo(p).value)
    /\ mounted' = TRUE
    /\ UNCHANGED <<heightVars, mergeVars, projVars, trackVars, pageVars>>

\* Viewer3D is taken out of the page: its memo cell is dropped.
Unmount ==
    /\ mounted
    /\ mounted' = FALSE
    /\ props' = InitialProps
    /\ memo' = NoMemo
    /\ scene' = EmptyScene
    /\ UNCHANGED <<heightVars, mergeVars, projVars, trackVars, pageVars>>

\* A render of the mounted Scene3D with the props p.
Render(p) ==
    /\ mounted
    /\ props' = p
    /\ memo' = UseMemo(memo, p)
    /\ scene' = Scene3D(p, UseMemo(memo, p).value)
    /\ UNCHANGED <<mounted, heightVars, mergeVars, projVars, trackVars, pageVars>>

\* The owner drops its map data: osmData becomes undefined.
ClearOsmData == Render([props EXCEPT !.osmData = NoOsmData])

SetBounds ==
    \E b \in BoundsPool : Render([props EXCEPT !.bounds = b])

SetBuildingHeightRange ==
    \E r \in HeightRangePool : Render([props EXCEPT !.buildingHeightRange = r])

SetGpxPoints ==
    \E g \in GpxPointsPool : Render([props EXCEPT !.gpxPoints = g])

-----------------------------------------------------------------------------
(* The page (app/page.tsx): GPX files, SVG generation and the map-data cache *)

\* parsedGPX: null, or the name and the points of the parsed file.
NoGPX == [def |-> FALSE, name |-> "", points |-> <<>>]

\* The GPX files dropped on the page: two tracks in different places, and a
\* file GPXParser cannot parse.
FileA   == [parses |-> TRUE,  name |-> "a", points |-> <<Coord(Num(0), Num(0)), Coord(Num(1), Num(1))>>]
FileB   == [parses |-> TRUE,  name |-> "b", points |-> <<Coord(Num(2), Num(2)), Coord(Num(3), Num(4))>>]
BadFile == [parses |-> FALSE, name |-> "x", points |-> <<>>]

FilePool == {FileA, FileB, BadFile}

\* GPXParser.parseGPXFile(file): the parsed file; null stands for the throw.
parseGPXFile(file) ==
    IF file.parses THEN [def |-> TRUE, name |-> file.name, points |-> file.points]
    ELSE NoGPX

\* The bounds map data is fetched within: the bounding box of the track.
FetchBounds(points) ==
    [def   |-> TRUE,
     north |-> MathMax([i \in 1..Len(points) |-> points[i].lat]),
     south |-> MathMin([i \in 1..Len(points) |-> points[i].lat]),
     east  |-> MathMax([i \in 1..Len(points) |-> points[i].lon]),
     west  |-> MathMin([i \in 1..Len(points) |-> points[i].lon])]

\* The map data fetched within bounds b: one retail footprint in the
\* southwest half of the box when buildings are asked for, none otherwise.
FetchedOsmData(b, includeBuildings) ==
    [def       |-> TRUE,
     buildings |-> IF includeBuildings
                   THEN <<[geometry |-> <<Coord(b.south, b.west), Coord(b.south, b.east),
                                           Coord(b.north, b.west)>>,
                           tags     |-> [NoTags EXCEPT !.building = <<"retail">>]]>>
                   ELSE <<>>]

\* JSON.parse(JSON.stringify(x)) of a number: a finite number comes back as
\* itself, NaN and the infinities come back as null, which counts as 0.
JSONNumber(x) == IF IsFinite(x) THEN x ELSE Num(0)

\* JSON.stringify(bounds) and JSON.parse of the string it gave.
JSONStringify(b) ==
    <<"{", "north", JSONNumber(b.north), "south", JSONNumber(b.south),
      "east", JSONNumber(b.east), "west", JSONNumber(b.west), "}">>

JSONParse(str) ==
    [def |-> TRUE, north |-> str[3], south |-> str[5], east |-> str[7], west |-> str[9]]

NoCache == [def |-> FALSE, data |-> NoOsmData, bounds |-> <<>>,
            includeRoads |-> FALSE, includeBuildings |-> FALSE]

NoCachedOSMData == [def |-> FALSE, data |-> NoOsmData, bounds |-> NoBounds]

NoSvg == <<>>

\* SVGGenerator.generateSVG(points, svgOptions, name): the drawing, and the
\* map data it drew with its bounds: the cached data when it is handed any,
\* else data fetched within the bounds of the track when roads or buildings
\* are asked for, else none.
generateSVG(points, svgOptions, name) ==
    LET osm == IF svgOptions.cachedOSMData.def
               THEN [def |-> TRUE, data |-> svgOptions.cachedOSMData.data,
                     bounds |-> svgOptions.cachedOSMData.bounds]
               ELSE IF svgOptions.includeRoads \/ svgOptions.includeBuildings
               THEN [def |-> TRUE,
                     data |-> FetchedOsmData(FetchBounds(points), svgOptions.includeBuildings),
                     bounds |-> FetchBounds(points)]
               ELSE NoCachedOSMData
    IN  [svg       |-> <<"svg", name>>,
         osmData   |-> IF osm.def THEN osm.data ELSE NoOsmData,
         osmBounds |-> IF osm.def THEN osm.bounds ELSE NoBounds]

\* The same call when the map-data fetch fails and the track is drawn alone.
generateSVGWithoutMap(points, svgOptions, name) ==
    [svg       |-> <<"svg", name>>,
     osmData   |-> NoOsmData,
     osmBounds |-> NoBounds]

\* A timer handle as the page holds it: null, the id of a pending timeout,
\* or the id of a timeout that has fired or was cleared (clearTimeout of it
\* does nothing, and it counts as true in a condition).
NoTimer    == [set |-> FALSE, id |-> 0]
SpentTimer == [set |-> TRUE, id |-> 0]
Handle(id) == [set |-> TRUE, id |-> id]

NoTimers == [pending |-> {}, fastCleanup |-> NoTimer, slowCleanup |-> NoTimer]

NoCall == [def |-> FALSE, by |-> "none", name |-> "", cachedOSMData |-> FALSE]

\* The state of Home after its first render.
InitialPage ==
    [parsedGPX         |-> NoGPX,
     generatedSvg      |-> NoSvg,
     strokeWidth       |-> 2,
     includeElevation  |-> FALSE,
     includeRoads      |-> FALSE,
     includeBuildings  |-> FALSE,
     minBuildingHeight |-> 5,
     maxBuildingHeight |-> 30,
     isGenerating      |-> FALSE,
     isInitialLoad     |-> TRUE,
     currentView       |-> "2d",
     osmDataCache      |-> NoCache,
     fastUpdateTimer   |-> NoTimer,
     slowUpdateTimer   |-> NoTimer]

PageIdle ==
    /\ page = InitialPage
    /\ inflight = <<>>
    /\ timers = NoTimers
    /\ lastStarted = NoCall

\* The props Home renders Viewer3D with.
PageProps(pg) ==
    [osmData             |-> IF pg.osmDataCache.def THEN pg.osmDataCache.data ELSE NoOsmData,
     bounds              |-> IF pg.osmDataCache.def /\ pg.osmDataCache.data.def
                             THEN JSONParse(pg.osmDataCache.bounds)
                             ELSE NoBounds,
     gpxPoints           |-> [def |-> TRUE, points |-> pg.parsedGPX.points],
     strokeWidth         |-> [def |-> TRUE, value |-> Num(pg.strokeWidth)],
     modelDimensions     |-> Dimensions(200, 200),
     buildingHeightRange |-> HeightRange(pg.minBuildingHeight, pg.maxBuildingHeight),
     pathExtrusionHeight |-> [def |-> TRUE, value |-> Num(2)]]

\* The 3D tab shows Viewer3D unless a generation runs or no file is parsed.
ViewerShown(pg) == pg.currentView = "3d" /\ ~pg.isGenerating /\ pg.parsedGPX.def

\* The render of Home in the state pg: Viewer3D is mounted, rendered again
\* or taken out of the page.
RenderPage(pg) ==
    IF ViewerShown(pg)
    THEN /\ mounted' = TRUE
         /\ props' = PageProps(pg)
         /\ memo' = IF mounted THEN UseMemo(memo, props') ELSE FirstMemo(props')
         /\ scene' = Scene3D(props', memo'.value)
    ELSE /\ mounted' = FALSE
         /\ props' = InitialProps
         /\ memo' = NoMemo
         /\ scene' = EmptyScene

\* handleFileDrop(acceptedFiles): acceptedFiles holds no file or one file
\* (maxFiles = 1).  The await of the parser is taken as one step.
handleFileDrop(acceptedFiles) ==
    /\ page' = IF Len(acceptedFiles) > 0
               THEN [page EXCEPT !.generatedSvg = NoSvg,
                                 !.isInitialLoad = FALSE,
                                 !.parsedGPX = parseGPXFile(acceptedFiles[1])]
               ELSE [page EXCEPT !.generatedSvg = NoSvg,
                                 !.isInitialLoad = TRUE]
    /\ RenderPage(page')
    /\ UNCHANGED <<inflight, timers, lastStarted, heightVars, mergeVars, projVars, trackVars>>

FileDrop == \E acceptedFiles \in {<<>>} \cup {<<f>> : f \in FilePool} : handleFileDrop(acceptedFiles)

\* The values of a render that the callbacks created in it keep on reading:
\* the ones the effects, their timeouts and handleGenerateSVG refer to.
Closure(pg) ==
    [parsedGPX        |-> pg.parsedGPX,
     generatedSvg     |-> pg.generatedSvg,
     strokeWidth      |-> pg.strokeWidth,
     includeElevation |-> pg.includeElevation,
     includeRoads     |-> pg.includeRoads,
     includeBuildings |-> pg.includeBuildings,
     isGenerating     |-> pg.isGenerating,
     osmDataCache     |-> pg.osmDataCache]

\* svgOptions.cachedOSMData as handleGenerateSVG computes it from the state c
\* its closure holds.
CachedOSMData(c) ==
    LET boundsKey       == <<c.includeRoads, c.includeBuildings>>
        currentCacheKey == IF c.osmDataCache.def
                           THEN <<c.osmDataCache.includeRoads, c.osmDataCache.includeBuildings>>
                           ELSE <<>>
    IN  IF boundsKey = currentCacheKey /\ c.osmDataCache.def
        THEN [def |-> TRUE, data |-> c.osmDataCache.data,
              bounds |-> JSONParse(c.osmDataCache.bounds)]
        ELSE NoCachedOSMData

\* The number of awaited calls the page is driven to.
MaxInFlight == 2

\* handleGenerateSVG up to its await, run by the button or a timeout (by)
\* when the state of the page is pg, c being the state its closure holds: the
\* call of SVGGenerator.generateSVG is put in flight.
handleGenerateSVG(pg, c, by) ==
    IF ~c.parsedGPX.def
    THEN /\ page' = pg
         /\ UNCHANGED <<inflight, lastStarted, sceneVars>>
    ELSE /\ page' = [pg EXCEPT !.isGenerating = TRUE]
         /\ inflight' = Append(inflight,
                [points           |-> c.parsedGPX.points,
                 name             |-> c.parsedGPX.name,
                 includeRoads     |-> c.includeRoads,
                 includeBuildings |-> c.includeBuildings,
                 svgOptions       |-> [includeRoads     |-> c.includeRoads,
                                       includeBuildings |-> c.includeBuildings,
                                       cachedOSMData    |-> CachedOSMData(c)]])
         /\ lastStarted' = [def |-> TRUE, by |-> by, name |-> c.parsedGPX.name,
                            cachedOSMData |-> CachedOSMData(c).def]
         /\ RenderPage(page')

\* The Generate SVG button: shown on the 2D tab while a file is parsed and no
\* drawing exists, disabled while a generation runs.
ClickGenerate ==
    /\ page.currentView = "2d"
    /\ ~page.isGenerating
    /\ page.generatedSvg = NoSvg
    /\ page.parsedGPX.def
    /\ Len(inflight) < MaxInFlight
    /\ handleGenerateSVG(page, Closure(page), "button")
    /\ UNCHANGED <<timers, heightVars, mergeVars, projVars, trackVars>>

RemoveAt(s, i) == SubSeq(s, 1, i - 1) \o SubSeq(s, i + 1, Len(s))

\* What the awaited call can come back with: its result, its result without
\* map data when a fetch was tried and failed, or a throw.
GenerationOutcomes(call) ==
    {[thrown |-> FALSE, result |-> generateSVG(call.points, call.svgOptions, call.name)]}
    \cup
    IF ~call.svgOptions.cachedOSMData.def /\ (call.includeRoads \/ call.includeBuildings)
    THEN {[thrown |-> FALSE,
           result |-> generateSVGWithoutMap(call.points, call.svgOptions, call.name)],
          [thrown |-> TRUE,
           result |-> generateSVGWithoutMap(call.points, call.svgOptions, call.name)]}
    ELSE {}

\* handleGenerateSVG after its await: the drawing and the cache are set, or
\* the error is caught; finally isGenerating is reset.
GenerationDone ==
    \E i \in 1..Len(inflight) : \E out \in GenerationOutcomes(inflight[i]) :
        LET call   == inflight[i]
            result == out.result
        IN  /\ page' = IF out.thrown
                       THEN [page EXCEPT !.isGenerating = FALSE]
                       ELSE [page EXCEPT
                               !.generatedSvg = result.svg,
                               !.osmDataCache =
                                   IF result.osmData.def /\ result.osmBounds.def
                                   THEN [def              |-> TRUE,
                                         data             |-> result.osmData,
                                         bounds           |-> JSONStringify(result.osmBounds),
                                         includeRoads     |-> call.includeRoads,
                                         includeBuildings |-> call.includeBuildings]
                                   ELSE @,
                               !.isGenerating = FALSE]
            /\ inflight' = RemoveAt(inflight, i)
            /\ RenderPage(page')
            /\ UNCHANGED <<timers, lastStarted, heightVars, mergeVars, projVars, trackVars>>

\* clearTimeout(handle): the pending timeout of that id, if any, is dropped.
ClearTimeout(tm, handle) ==
    [tm EXCEPT !.pending = {t \in @ : ~(handle.set /\ t.id = handle.id)}]

\* setTimeout: the id of the new timeout, different from the pending ones.
NewTimerId(tm) ==
    CHOOSE id \in 1..(Cardinality(tm.pending) + 1) : \A t \in tm.pending : t.id # id

\* A handle whose timeout is no longer pending.
Spent(tm, handle) ==
    IF handle.set /\ (\A t \in tm.pending : t.id # handle.id) THEN SpentTimer ELSE handle

SpentInPage(pg, tm) ==
    [pg EXCEPT !.fastUpdateTimer = Spent(tm, @), !.slowUpdateTimer = Spent(tm, @)]

SpentInEffects(tm) ==
    [tm EXCEPT !.fastCleanup = Spent(tm, @), !.slowCleanup = Spent(tm, @)]

\* The fast effect without its cleanup and without clearing a former timeout.
FastEffectKeepingTimers(pg, tm) ==
    IF pg.generatedSvg # NoSvg /\ pg.parsedGPX.def
    THEN [page   |-> [pg EXCEPT !.fastUpdateTimer = Handle(NewTimerId(tm))],
          timers |-> [tm EXCEPT
                        !.pending = @ \cup {[id |-> NewTimerId(tm), kind |-> "fast",
                                             c |-> Closure(pg)]},
                        !.fastCleanup = Handle(NewTimerId(tm))]]
    ELSE [page |-> pg, timers |-> [tm EXCEPT !.fastCleanup = NoTimer]]

\* The effect on fastSettings after a render in the state pg: the cleanup of
\* its former run, then, with a drawing and a parsed file, clearTimeout of
\* fastUpdateTimer, a new timeout of 100 ms and setFastUpdateTimer.
FastEffect(pg, tm) ==
    LET cleaned == ClearTimeout(tm, tm.fastCleanup)
    IN  IF pg.generatedSvg # NoSvg /\ pg.parsedGPX.def
        THEN LET cleared == ClearTimeout(cleaned, pg.fastUpdateTimer)
                 id      == NewTimerId(cleared)
             IN  [page   |-> [pg EXCEPT !.fastUpdateTimer = Handle(id)],
                  timers |-> [cleared EXCEPT
                                !.pending = @ \cup {[id |-> id, kind |-> "fast",
                                                     c |-> Closure(pg)]},
                                !.fastCleanup = Handle(id)]]
        ELSE [page |-> pg, timers |-> [cleaned EXCEPT !.fastCleanup = NoTimer]]

\* The effect on slowSettings after a render in the state pg: the cleanup of
\* its former run, then, with a drawing and a parsed file, clearTimeout of
\* slowUpdateTimer, clearTimeout of fastUpdateTimer and setFastUpdateTimer(null),
\* a new timeout of 500 ms and setSlowUpdateTimer.
SlowEffect(pg, tm) ==
    LET cleaned == ClearTimeout(tm, tm.slowCleanup)
    IN  IF pg.generatedSvg # NoSvg /\ pg.parsedGPX.def
        THEN LET cleared == ClearTimeout(ClearTimeout(cleaned, pg.slowUpdateTimer),
                                         pg.fastUpdateTimer)
                 id      == NewTimerId(cleared)
             IN  [page   |-> [pg EXCEPT !.fastUpdateTimer = IF @.set THEN NoTimer ELSE @,
                                        !.slowUpdateTimer = Handle(id)],
                  timers |-> [cleared EXCEPT
                                !.pending = @ \cup {[id |-> id, kind |-> "slow",
                                                     c |-> Closure(pg)]},
                                !.slowCleanup = Handle(id)]]
        ELSE [page |-> pg, timers |-> [cleaned EXCEPT !.slowCleanup = NoTimer]]

\* The state after a setter and the effect its render runs.
AfterEffect(eff) ==
    /\ timers' = SpentInEffects(eff.timers)
    /\ page' = SpentInPage(eff.page, eff.timers)
    /\ RenderPage(page')
    /\ UNCHANGED <<inflight, lastStarted, heightVars, mergeVars, projVars, trackVars>>

\* The settings card is rendered once a file is parsed.
SettingsShown == ~page.isInitialLoad /\ page.parsedGPX.def

\* The Stroke Width slider: min, max and the stops the page is driven to
\* (the value it starts with and its upper end).
strokeWidthMin == 1
strokeWidthMax == 20

StrokeWidthStops == {2, strokeWidthMax}

setStrokeWidth ==
    /\ SettingsShown
    /\ \E v \in StrokeWidthStops \ {page.strokeWidth} :
           AfterEffect(FastEffect([page EXCEPT !.strokeWidth = v], timers))

setIncludeElevation ==
    /\ SettingsShown
    /\ AfterEffect(SlowEffect([page EXCEPT !.includeElevation = ~@], timers))

setIncludeRoads ==
    /\ SettingsShown
    /\ AfterEffect(SlowEffect([page EXCEPT !.includeRoads = ~@], timers))

setIncludeBuildings ==
    /\ SettingsShown
    /\ AfterEffect(SlowEffect([page EXCEPT !.includeBuildings = ~@], timers))

\* The timeout of the fast effect after its 100 ms: handleGenerateSVG of the
\* render that set it, unless isGenerating was true in that render.
FastTimerFires ==
    \E t \in timers.pending :
        /\ t.kind = "fast"
        /\ Len(inflight) < MaxInFlight
        /\ timers' = SpentInEffects([timers EXCEPT !.pending = @ \ {t}])
        /\ IF ~t.c.isGenerating
           THEN handleGenerateSVG(SpentInPage(page, timers'), t.c, "fast")
           ELSE /\ page' = SpentInPage(page, timers')
                /\ UNCHANGED <<inflight, lastStarted, sceneVars>>
        /\ UNCHANGED <<heightVars, mergeVars, projVars, trackVars>>

\* The timeout of the slow effect after its 500 ms: setOsmDataCache(null),
\* then handleGenerateSVG of the render that set it.
SlowTimerFires ==
    \E t \in timers.pending :
        /\ t.kind = "slow"
        /\ Len(inflight) < MaxInFlight
        /\ timers' = SpentInEffects([timers EXCEPT !.pending = @ \ {t}])
        /\ handleGenerateSVG([SpentInPage(page, timers') EXCEPT !.osmDataCache = NoCache],
                             t.c, "slow")
        /\ UNCHANGED <<heightVars, mergeVars, projVars, trackVars>>

\* The 3D model card is rendered with the settings while buildings are
\* included and the 3D tab is open.
ModelControlsShown == SettingsShown /\ page.includeBuildings /\ page.currentView = "3d"

\* The building height sliders: their ends, and the stops the page is driven to.
minBuildingHeightMin == 1
minBuildingHeightMax == 10
maxBuildingHeightMin == 4
maxBuildingHeightMax == 30

MinBuildingHeightStops == {minBuildingHeightMin, 5, minBuildingHeightMax}
MaxBuildingHeightStops == {maxBuildingHeightMin, maxBuildingHeightMax}

setMinBuildingHeight ==
    /\ ModelControlsShown
    /\ \E v \in MinBuildingHeightStops \ {page.minBuildingHeight} :
           page' = [page EXCEPT !.minBuildingHeight = v]
    /\ RenderPage(page')
    /\ UNCHANGED <<inflight, timers, lastStarted, heightVars, mergeVars, projVars, trackVars>>

setMaxBuildingHeight ==
    /\ ModelControlsShown
    /\ \E v \in MaxBuildingHeightStops \ {page.maxBuildingHeight} :
           page' = [page EXCEPT !.maxBuildingHeight = v]
    /\ RenderPage(page')
    /\ UNCHANGED <<inflight, timers, lastStarted, heightVars, mergeVars, projVars, trackVars>>

setCurrentView ==
    /\ \E value \in {"2d", "3d"} \ {page.currentView} :
           page' = [page EXCEPT !.currentView = value]
    /\ RenderPage(page')
    /\ UNCHANGED <<inflight, timers, lastStarted, heightVars, mergeVars, projVars, trackVars>>

-----------------------------------------------------------------------------
(* Specifications *)

\* Runs of getBuildingHeight.
HeightSpecInit == HeightInit /\ MergeIdle /\ SceneIdle /\ ProjIdle /\ TrackIdle /\ PageIdle

HeightNext == ResolveHeight /\ UNCHANGED <<mergeVars, sceneVars, projVars, trackVars, pageVars>>

HeightSpec == HeightSpecInit /\ [][HeightNext]_vars

\* Runs of the foundation merge.
MergeSpecInit == MergeInit /\ HeightIdle /\ SceneIdle /\ ProjIdle /\ TrackIdle /\ PageIdle

MergeNext == MergeFoundation /\ UNCHANGED <<heightVars, sceneVars, projVars, trackVars, pageVars>>

\* Runs of the projection in each component.
ProjSpecInit == ProjInit /\ HeightIdle /\ MergeIdle /\ SceneIdle /\ TrackIdle /\ PageIdle

ProjNext ==
    \/ ProjectBuilding /\ UNCHANGED <<heightVars, mergeVars, sceneVars, trackVars, pageVars>>
    \/ ProjectFoundation /\ UNCHANGED <<heightVars, mergeVars, sceneVars, trackVars, pageVars>>
    \/ ProjectTrack /\ UNCHANGED <<heightVars, mergeVars, sceneVars, trackVars, pageVars>>

ProjSpec == ProjSpecInit /\ [][ProjNext]_vars

\* Track meshes of tracks of every length.
TrackSpecInit == TrackInit /\ HeightIdle /\ MergeIdle /\ SceneIdle /\ ProjIdle /\ PageIdle

TrackNext ==
    \/ BuildTrack /\ UNCHANGED <<heightVars, mergeVars, sceneVars, projVars, pageVars>>
    \/ PlaceTrack /\ UNCHANGED <<heightVars, mergeVars, sceneVars, projVars, pageVars>>

TrackSpec == TrackSpecInit /\ [][TrackNext]_vars

\* The life of the page.
PageInit == PageIdle /\ SceneIdle /\ HeightIdle /\ MergeIdle /\ ProjIdle /\ TrackIdle

\* A visit of Home in which buildings are switched and the 3D tab is opened.
PageNext ==
    \/ FileDrop
    \/ ClickGenerate
    \/ GenerationDone
    \/ setIncludeBuildings
    \/ setCurrentView
    \/ SlowTimerFires

PageSpec == PageInit /\ [][PageNext]_vars

\* A visit of Home that stays on the 2D tab and draws the track alone: the
\* stroke width is moved and the elevation profile is switched.
DebounceInit == PageIdle /\ SceneIdle /\ HeightIdle /\ MergeIdle /\ ProjIdle /\ TrackIdle

DebounceNext ==
    \/ FileDrop
    \/ ClickGenerate
    \/ GenerationDone
    \/ setStrokeWidth
    \/ setIncludeElevation
    \/ FastTimerFires
    \/ SlowTimerFires

DebounceSpec == DebounceInit /\ [][DebounceNext]_vars

\* A visit of Home that stays on the 2D tab and draws the track with roads:
\* roads and the elevation profile are switched.
RegenerateInit == PageIdle /\ SceneIdle /\ HeightIdle /\ MergeIdle /\ ProjIdle /\ TrackIdle

RegenerateNext ==
    \/ FileDrop
    \/ ClickGenerate
    \/ GenerationDone
    \/ setIncludeRoads
    \/ setIncludeElevation
    \/ SlowTimerFires

RegenerateSpec == RegenerateInit /\ [][RegenerateNext]_vars

\* A visit of Home in which no drawing is generated: buildings are switched,
\* the 3D tab is opened, the stroke width and the building height sliders
\* are moved.
ControlsInit == PageIdle /\ SceneIdle /\ HeightIdle /\ MergeIdle /\ ProjIdle /\ TrackIdle

ControlsNext ==
    \/ FileDrop
    \/ setStrokeWidth
    \/ setIncludeBuildings
    \/ setCurrentView
    \/ setMinBuildingHeight
    \/ setMaxBuildingHeight

ControlsSpec == ControlsInit /\ [][ControlsNext]_vars

MergeSpec == MergeSpecInit /\ [][MergeNext]_vars

\* The life of a Viewer3D.
Init == SceneIdle /\ HeightIdle /\ MergeIdle /\ ProjIdle /\ TrackIdle /\ PageIdle

Next ==
    \/ Mount
    \/ Unmount
    \/ ClearOsmData
    \/ SetBounds
    \/ SetBuildingHeightRange
    \/ SetGpxPoints

Spec == Init /\ [][Next]_vars

-----------------------------------------------------------------------------
(* The height mapping of a scene *)

\* The footprints and their resolved heights in the props of the last render.
Footprints == props.osmData.buildings

Heights == ResolvedHeights(Footprints)

LowestHeight  == MathMin(Heights)
HighestHeight == MathMax(Heights)

\* The scene was built with bounds and holds at least one building.
HasBuildings == mounted /\ Len(scene.buildings) >= 1

\* The range the height rules state for a set of heights: its minimum and
\* maximum, widened by one on each side when they coincide.
RangeOfHeights ==
    IF StrictEq(LowestHeight, HighestHeight)
    THEN [min |-> Sub(LowestHeight, Num(1)), max |-> Add(HighestHeight, Num(1))]
    ELSE [min |-> LowestHeight, max |-> HighestHeight]

\* C3: in a scene with at least one building, the source range each building
\* is mapped with has min < max, also without a target range.
C3_SourceRangeNotDegenerate ==
    HasBuildings =>
        \A i \in 1..Len(scene.buildings) :
            Lt(scene.buildings[i].heightMapping.min, scene.buildings[i].heightMapping.max)

\* C4: the building meshes of a scene are those of the footprints with at
\* least 3 vertices; a footprint with fewer produces none.
C4_ShortFootprintsSkipped ==
    (mounted /\ props.bounds.def /\ props.osmData.def) =>
        Len(scene.buildings)
            = Cardinality({i \in 1..Len(Footprints) : Len(Footprints[i].geometry) >= 3})

\* C7: every building of a scene is mapped with the same source range, and
\* that range is the (widened if degenerate) min/max of the resolved heights
\* of all footprints.
C7_OneSourceRangePerScene ==
    HasBuildings =>
        \A i \in 1..Len(scene.buildings) :
            /\ scene.buildings[i].heightMapping = scene.buildings[1].heightMapping
            /\ scene.buildings[i].heightMapping.min = RangeOfHeights.min
            /\ scene.buildings[i].heightMapping.max = RangeOfHeights.max

\* tmin + (h - smin) / (smax - smin) * (tmax - tmin)
Interpolate(h, smin, smax, tmin, tmax) ==
    Add(tmin, Mul(Div(Sub(h, smin), Sub(smax, smin)), Sub(tmax, tmin)))

\* C8: with a target range and footprints of differing heights, every building
\* gets the interpolated height: equal heights give equal outputs, the lowest
\* height maps to the target minimum and the highest to the target maximum.
C8_LinearInterpolation ==
    (HasBuildings /\ props.buildingHeightRange.def
                  /\ ~StrictEq(LowestHeight, HighestHeight)) =>
        LET tmin == props.buildingHeightRange.min
            tmax == props.buildingHeightRange.max
        IN  \A i \in 1..Len(scene.buildings) :
              /\ StrictEq(scene.buildings[i].height,
                          Interpolate(Heights[i], LowestHeight, HighestHeight, tmin, tmax))
              /\ Heights[i] = LowestHeight => StrictEq(scene.buildings[i].height, tmin)
              /\ Heights[i] = HighestHeight => StrictEq(scene.buildings[i].height, tmax)
              /\ \A j \in 1..Len(scene.buildings) :
                    Heights[i] = Heights[j]
                        => StrictEq(scene.buildings[i].height, scene.buildings[j].height)

\* C9: under a source range with min < max and a target range with
\* min <= max, a lower building is never mapped above a higher one.
C9_MappingMonotonic ==
    HasBuildings =>
        \A i, j \in 1..Len(scene.buildings) :
            LET hm == scene.buildings[i].heightMapping
            IN  (/\ Lt(hm.min, hm.max)
                 /\ Le(hm.minMM, hm.maxMM)
                 /\ Lt(scene.buildings[i].originalHeight, scene.buildings[j].originalHeight))
                    => Le(scene.buildings[i].height, scene.buildings[j].height)

\* C10: the source range computed from the heights is their min and max, or
\* [min - 1, max + 1] when all are equal; it has min < max and holds every
\* height (strictly inside when all are equal).
C10_ComputedRange ==
    (mounted /\ memo.value.def) =>
        /\ memo.value.min = RangeOfHeights.min
        /\ memo.value.max = RangeOfHeights.max
        /\ Lt(memo.value.min, memo.value.max)
        /\ \A i \in 1..Len(Heights) :
              /\ Le(memo.value.min, Heights[i]) /\ Le(Heights[i], memo.value.max)
              /\ StrictEq(LowestHeight, HighestHeight)
                    => Lt(memo.value.min, Heights[i]) /\ Lt(Heights[i], memo.value.max)

-----------------------------------------------------------------------------
(* Scenes without bounds *)

\* C14: a render without bounds builds an empty scene: no foundation mesh, no
\* building mesh and no track mesh, whatever footprints and track points the
\* props hold.
C14_NoBoundsEmptyScene ==
    (mounted /\ ~props.bounds.def) =>
        /\ ~scene.foundation.placed
        /\ scene.buildings = <<>>
        /\ ~scene.track.placed

\* A render without bounds whose props hold footprints and a track of two
\* points.
C14_Witness ==
    /\ mounted
    /\ ~props.bounds.def
    /\ props.osmData.def /\ Len(props.osmData.buildings) > 0
    /\ props.gpxPoints.def /\ Len(props.gpxPoints.points) = 2
    /\ scene = EmptyScene

\* The coordinates of the meshes a scene places.
MeshCoordinates(sc) ==
    LET OfPoints(ps)   == UNION {{ps[i].x, ps[i].y} : i \in 1..Len(ps)}
        OfGeometry(g)  == UNION {{g.position[i][1], g.position[i][2], g.position[i][3]} :
                                    i \in 1..Len(g.position)}
    IN  OfGeometry(sc.foundation.geometry)
          \cup UNION {OfPoints(sc.buildings[i].shape) : i \in 1..Len(sc.buildings)}
          \cup OfPoints(sc.track.track.pathPoints)

ZeroArea(b) == StrictEq(b.north, b.south) \/ StrictEq(b.east, b.west)

\* C16: with zero-area bounds (east = west or north = south) a scene build
\* places no mesh with a coordinate that comes from a division by zero: every
\* footprint and track coordinate of the scene is a finite number.
C16_ZeroAreaBoundsSkipped ==
    (mounted /\ props.bounds.def /\ ZeroArea(props.bounds)) =>
        \A c \in MeshCoordinates(scene) : IsFinite(c)

-----------------------------------------------------------------------------
(* Short tracks *)

\* C15: GPXTrack3D builds the empty mesh (no vertex, no triangle) for a track
\* of fewer than 2 points, and a render of Scene3D places a track mesh only
\* when the track has at least 2 points.
C15_ShortTrackEmpty ==
    /\ (tOut.by = "GPXTrack3D" /\ Len(tIn.gpxPoints.points) < 2)
           => tOut.track = EmptyTrack
    /\ (tOut.by = "Scene3D" /\ tOut.placed)
           => (tIn.gpxPoints.def /\ Len(tIn.gpxPoints.points) >= 2
                 /\ Len(tOut.track.pathPoints) = Len(tIn.gpxPoints.points))

\* GPXTrack3D was run on a track of one point and built the empty mesh.
C15_Witness ==
    /\ tOut.by = "GPXTrack3D"
    /\ Len(tIn.gpxPoints.points) = 1
    /\ tOut.track = EmptyTrack

-----------------------------------------------------------------------------
(* The page and its map-data cache *)

\* x and z of a projected point lie within the extents of the model.
WithinExtents(pt, modelDimensions) ==
    LET halfWidth == Div(ScaleX(modelDimensions), Num(2))
        halfDepth == Div(ScaleZ(modelDimensions), Num(2))
    IN  /\ Le(Neg(halfWidth), pt.x) /\ Le(pt.x, halfWidth)
        /\ Le(Neg(halfDepth), pt.y) /\ Le(pt.y, halfDepth)

\* C12: every track point projected in a scene build lies within the model
\* extents, x in [-width/2, +width/2] and z in [-depth/2, +depth/2], for every
\* track and bounds the page hands to the 3D viewer.
C12_TrackWithinExtents ==
    (mounted /\ scene.track.placed) =>
        \A i \in 1..Len(scene.track.track.pathPoints) :
            WithinExtents(scene.track.track.pathPoints[i], props.modelDimensions)

\* C13: cached map data handed to SVG generation or to the 3D viewer was
\* fetched within the bounds of the track it is used with: the track being
\* drawn, and the track of the file the page has loaded.
C13_CacheOnlyUnderSameBounds ==
    /\ \A i \in 1..Len(inflight) :
           inflight[i].svgOptions.cachedOSMData.def
               => inflight[i].svgOptions.cachedOSMData.bounds = FetchBounds(inflight[i].points)
    /\ (mounted /\ props.osmData.def)
           => props.bounds = FetchBounds(page.parsedGPX.points)

\* C20: the stroke width of the track selected in the page lies in 1..10.
C20_StrokeWidthRange ==
    page.strokeWidth \in 1..10

-----------------------------------------------------------------------------
(* The track ribbon *)

\* C24: the track outline is extruded by exactly the path extrusion depth
\* that is supplied, 0 included; the default 2 is used only when no depth is
\* supplied.
C24_ExtrusionDepth ==
    (tOut.by = "GPXTrack3D" /\ Len(tIn.gpxPoints.points) >= 2) =>
        tOut.track.extrusionHeight =
            IF tIn.pathExtrusionHeight.def THEN tIn.pathExtrusionHeight.value ELSE Num(2)

\* The unit vector from path point a to path point b, which exists when the
\* two differ.
UnitDirection(a, b) ==
    MultiplyScalar(SubVectors(b, a), Div(Num(1), Length(SubVectors(b, a))))

\* The direction the ribbon is described to have at path point i: the unit
\* direction of the only segment at an end, the sum of the incoming and the
\* outgoing unit direction scaled to length 1 in between.
RibbonDirection(pp, i) ==
    IF i = 1 THEN UnitDirection(pp[1], pp[2])
    ELSE IF i = Len(pp) THEN UnitDirection(pp[i - 1], pp[i])
    ELSE LET sum == AddVectors(UnitDirection(pp[i - 1], pp[i]), UnitDirection(pp[i], pp[i + 1]))
         IN  MultiplyScalar(sum, Div(Num(1), Length(sum)))

\* Path point i has a direction: its segments have a length and, in between,
\* the track does not turn back on itself.
HasDirection(pp, i) ==
    /\ i > 1 => pp[i - 1] # pp[i]
    /\ i < Len(pp) => pp[i] # pp[i + 1]
    /\ (i > 1 /\ i < Len(pp)) =>
           AddVectors(UnitDirection(pp[i - 1], pp[i]), UnitDirection(pp[i], pp[i + 1]))
               # [x |-> Num(0), y |-> Num(0)]

\* Half the stroke width the track of TrackSpec is built with.
RibbonHalfWidth == Mul(Num(2), Half)

DistanceSq(a, b) ==
    Add(Mul(Sub(a.x, b.x), Sub(a.x, b.x)), Mul(Sub(a.y, b.y), Sub(a.y, b.y)))

\* C22: every outline point, left or right, lies at distance halfWidth from
\* the path point it belongs to, also when consecutive points coincide or the
\* track turns back by 180 degrees.
C22_ConstantHalfWidth ==
    (tOut.by = "GPXTrack3D" /\ Len(tIn.gpxPoints.points) >= 2) =>
        LET pp == tOut.track.pathPoints
            N  == Len(pp)
        IN  \A i \in 1..N :
                /\ DistanceSq(tOut.shape[i], pp[i]) = Mul(RibbonHalfWidth, RibbonHalfWidth)
                /\ DistanceSq(tOut.shape[2 * N + 1 - i], pp[i])
                       = Mul(RibbonHalfWidth, RibbonHalfWidth)

\* The same, for the tracks without coincident consecutive points and
\* without a turn by 180 degrees.
C22_HalfWidthWhereDirected ==
    (tOut.by = "GPXTrack3D" /\ Len(tIn.gpxPoints.points) >= 2) =>
        LET pp == tOut.track.pathPoints
            N  == Len(pp)
        IN  \A i \in 1..N : HasDirection(pp, i) =>
                /\ DistanceSq(tOut.shape[i], pp[i]) = Mul(RibbonHalfWidth, RibbonHalfWidth)
                /\ DistanceSq(tOut.shape[2 * N + 1 - i], pp[i])
                       = Mul(RibbonHalfWidth, RibbonHalfWidth)

-----------------------------------------------------------------------------
(* The foundation *)

\* The corners of the slab under a footprint: its projected outline at 0 and
\* at the thickness 2.
SlabCorners(footprint) ==
    LET pts == ProjectPoints(footprint.geometry, props.bounds, props.modelDimensions)
    IN  [i \in 1..Len(pts) |-> <<pts[i].x, pts[i].y, Num(0)>>]
            \o [i \in 1..Len(pts) |-> <<pts[i].x, pts[i].y, Num(2)>>]

\* The slabs of the footprints with at least 3 vertices, in footprint order.
RECURSIVE SlabsInOrder(_)
SlabsInOrder(footprints) ==
    IF footprints = <<>> THEN <<>>
    ELSE (IF Len(Head(footprints).geometry) >= 3 THEN SlabCorners(Head(footprints)) ELSE <<>>)
             \o SlabsInOrder(Tail(footprints))

Triangles(g) ==
    IF g.indexed
    THEN [t \in 1..(Len(g.index) \div 3) |->
             <<g.position[g.index[3 * t - 2] + 1], g.position[g.index[3 * t - 1] + 1],
               g.position[g.index[3 * t] + 1]>>]
    ELSE [t \in 1..(Len(g.position) \div 3) |->
             <<g.position[3 * t - 2], g.position[3 * t - 1], g.position[3 * t]>>]

RECURSIVE TrianglesOfAll(_)
TrianglesOfAll(geoms) ==
    IF geoms = <<>> THEN <<>> ELSE Triangles(Head(geoms)) \o TrianglesOfAll(Tail(geoms))

\* C26: merging two or more meshes drops no triangle: the merged mesh
\* describes the triangles of the inputs, as many and each with its winding,
\* also when an input has no index list.
C26_NoTriangleDropped ==
    (mResult.done /\ Len(mGeoms) >= 2) =>
        Triangles(mResult.geometry) = TrianglesOfAll(mGeoms)

\* The same, when every input has an index list.
C26_IndexedTrianglesKept ==
    (mResult.done /\ Len(mGeoms) >= 2 /\ \A k \in 1..Len(mGeoms) : mGeoms[k].indexed) =>
        Triangles(mResult.geometry) = TrianglesOfAll(mGeoms)

-----------------------------------------------------------------------------
(* The page: sliders, timeouts and generations *)

\* C23: whenever the page renders the viewer, the buildingHeightRange it
\* hands over has min <= max.
C23_MinAtMostMax ==
    mounted => Le(props.buildingHeightRange.min, props.buildingHeightRange.max)

\* C27: a regeneration started by the timeout of a slow setting is handed no
\* cached map data.
C27_SlowRegenerationFetches ==
    (lastStarted.def /\ lastStarted.by = "slow") => ~lastStarted.cachedOSMData

\* C28: at no time are two runs of handleGenerateSVG in flight.
C28_OneGenerationAtATime == Len(inflight) <= 1

PendingTimers(kind) == {t \in timers.pending : t.kind = kind}

\* C29: changes of a fast setting are debounced: at most one timeout of the
\* fast effect is pending, it is the one of the last change (it holds the
\* fast settings the page has now), and it was set with a drawing and a
\* parsed file.
C29_FastChangesDebounced ==
    /\ Cardinality(PendingTimers("fast")) <= 1
    /\ \A t \in PendingTimers("fast") :
           /\ t.c.strokeWidth = page.strokeWidth
           /\ t.c.generatedSvg # NoSvg
           /\ t.c.parsedGPX.def

\* The stroke width was moved away and back while no generation ran, and the
\* one pending timeout is that of the move back.
C29_Witness ==
    /\ Cardinality(PendingTimers("fast")) = 1
    /\ \A t \in PendingTimers("fast") : t.c.strokeWidth = 2 /\ ~t.c.isGenerating
    /\ page.strokeWidth = 2
    /\ inflight = <<>>
    /\ lastStarted.by = "button"

\* C30: once no generation is in flight, the drawing shown is that of the
\* generation started last.
C30_LatestGenerationShown ==
    (inflight = <<>> /\ lastStarted.def /\ page.generatedSvg # NoSvg) =>
        page.generatedSvg = <<"svg", lastStarted.name>>

-----------------------------------------------------------------------------
(* The projection *)

\* C11: for bounds with north > south and east > west and any model
\* dimensions, each of the building, foundation and track projections maps
\* the centre of the bounds to (0, 0), the northwest corner to
\* (-width/2, -depth/2), the southeast corner to (+width/2, +depth/2), and a
\* point a quarter of the way from the southwest corner to
\* (-width/4, +depth/4).
C11_CentreAndCorners ==
    pOut # NotProjected =>
        LET width == ScaleX(pIn.modelDimensions)
            depth == ScaleZ(pIn.modelDimensions)
        IN  /\ pOut.points[1] = [x |-> Num(0), y |-> Num(0)]
            /\ pOut.points[2] = [x |-> Neg(Div(width, Num(2))), y |-> Neg(Div(depth, Num(2)))]
            /\ pOut.points[3] = [x |-> Div(width, Num(2)), y |-> Div(depth, Num(2))]
            /\ pOut.points[4] = [x |-> Neg(Div(width, Num(4))), y |-> Div(depth, Num(4))]

\* The track projection of a box that is neither square nor at the origin,
\* on a 200 x 300 model: the southeast corner lands on (100, 150).
C11_Witness ==
    /\ pOut.component = "track"
    /\ pIn.bounds = [def |-> TRUE, north |-> Num(2), south |-> Num(-1),
                     east |-> Num(1), west |-> Num(0)]
    /\ pIn.modelDimensions = Dimensions(200, 300)
    /\ pOut.points[3] = [x |-> Num(100), y |-> Num(150)]

====
